---- MODULE Spec2Model ----
(***************************************************************************)
(* Model of plot_tension.py: the scale catalog, the band selector          *)
(* get_tension_band, the inverse-distance weighting and normalisation of   *)
(* calculate_probabilities, and the module-level sweep over               *)
(* np.linspace(0, 1, n) that fills prob_data.                              *)
(*                                                                         *)
(* Numbers are exact rationals.  Tensions, distances and weights are       *)
(* pairs <<n, d>> of integers in lowest terms (d > 0).  Totals and         *)
(* probabilities are pairs <<N, D>> of arbitrary-precision naturals, each  *)
(* a little-endian sequence of base-Base digits without leading zeros      *)
(* (the empty sequence is 0), because a common denominator of nine         *)
(* weights does not fit a machine integer.                                 *)
(***************************************************************************)
EXTENDS Integers, Sequences, FiniteSets

VARIABLES
    scales,      \* the module-level catalog list
    pc,          \* where the script, or the caller of the function, stands
    n_samples,   \* the number of samples asked of np.linspace
    tensions,    \* the array np.linspace returned
    idx,         \* how many elements of tensions the for loop has consumed
    tension_arg, \* argument of the latest calculate_probabilities call
    candidates,  \* its local candidates
    weights,     \* its local weights
    total,       \* its local total
    probs,       \* the mapping it returned (module-level probs in the loop)
    prob_data,   \* the per-scale series
    prev_data    \* prob_data as the previous run of the script left it

vars == <<scales, pc, n_samples, tensions, idx, tension_arg, candidates, weights,
          total, probs, prob_data, prev_data>>

(***************************************************************************)
(* Bounds of the model.                                                    *)
(***************************************************************************)
\* query tensions are the multiples of 1/GridDen ...
GridDen == 100
\* ... from -MaxBelow/GridDen ...
MaxBelow == 100
\* ... to 1 + MaxAbove/GridDen
MaxAbove == 100
\* sample counts tried besides the script's own: -1 .. MaxSamples
MaxSamples == 4

(***************************************************************************)
(* Exact arithmetic.  The strict comparisons, the equalities and BRAdd are  *)
(* used by the properties only; the code computes with the rest.           *)
(***************************************************************************)
Base == 10000

Abs(x) == IF x < 0 THEN -x ELSE x

RECURSIVE Gcd(_, _)
Gcd(a, b) == IF b = 0 THEN a ELSE Gcd(b, a % b)

\* the rational n/d (d > 0) in lowest terms
Rat(n, d) == LET g == Gcd(Abs(n), d) IN <<n \div g, d \div g>>

RSub(a, b) == Rat(a[1] * b[2] - b[1] * a[2], a[2] * b[2])
RAdd(a, b) == Rat(a[1] * b[2] + b[1] * a[2], a[2] * b[2])
RAbs(a) == <<Abs(a[1]), a[2]>>
\* 1 / a, for a > 0
RInv(a) == <<a[2], a[1]>>
RLeq(a, b) == a[1] * b[2] <= b[1] * a[2]
RLess(a, b) == a[1] * b[2] < b[1] * a[2]
REq(a, b) == a[1] * b[2] = b[1] * a[2]

RECURSIVE BigOfInt(_)
BigOfInt(n) == IF n = 0 THEN <<>> ELSE <<n % Base>> \o BigOfInt(n \div Base)

RECURSIVE BigAddC(_, _, _)
BigAddC(a, b, c) ==
    IF a = <<>> /\ b = <<>> THEN BigOfInt(c)
    ELSE LET x == (IF a = <<>> THEN 0 ELSE a[1]) + (IF b = <<>> THEN 0 ELSE b[1]) + c
         IN  <<x % Base>> \o BigAddC(IF a = <<>> THEN a ELSE Tail(a),
                                     IF b = <<>> THEN b ELSE Tail(b),
                                     x \div Base)

BigAdd(a, b) == BigAddC(a, b, 0)

RECURSIVE BigMulSmallC(_, _, _)
BigMulSmallC(a, m, c) ==
    IF a = <<>> THEN BigOfInt(c)
    ELSE LET x == a[1] * m + c
         IN  <<x % Base>> \o BigMulSmallC(Tail(a), m, x \div Base)

\* a * m for a machine integer m >= 0
BigMulSmall(a, m) == IF m = 0 THEN <<>> ELSE BigMulSmallC(a, m, 0)

BigShift(a) == IF a = <<>> THEN a ELSE <<0>> \o a

RECURSIVE BigMulBy(_, _)
\* a * b, digit by digit of b
BigMulBy(a, b) ==
    IF b = <<>> THEN <<>>
    ELSE BigAdd(BigMulSmall(a, b[1]), BigShift(BigMulBy(a, Tail(b))))

BigMul(a, b) == IF Len(a) < Len(b) THEN BigMulBy(b, a) ELSE BigMulBy(a, b)

RECURSIVE BigLessFrom(_, _, _)
\* a < b for equally long a and b, comparing from digit k downwards
BigLessFrom(a, b, k) ==
    IF k = 0 THEN FALSE
    ELSE IF a[k] # b[k] THEN a[k] < b[k]
    ELSE BigLessFrom(a, b, k - 1)

BigLess(a, b) ==
    IF Len(a) # Len(b) THEN Len(a) < Len(b) ELSE BigLessFrom(a, b, Len(a))

BigLeq(a, b) == a = b \/ BigLess(a, b)

BigZero == <<>>
BigOne == BigOfInt(1)

\* big rationals <<N, D>>, D > 0, not reduced
BRZero == <<BigZero, BigOne>>
BROfRat(a) == <<BigOfInt(a[1]), BigOfInt(a[2])>>
BRAdd(p, q) == <<BigAdd(BigMul(p[1], q[2]), BigMul(q[1], p[2])), BigMul(p[2], q[2])>>
\* p + a for a rational a >= 0 of machine integers
BRAddRat(p, a) ==
    <<BigAdd(BigMulSmall(p[1], a[2]), BigMulSmall(p[2], a[1])), BigMulSmall(p[2], a[2])>>
\* a / p for a rational a >= 0 of machine integers and p > 0
BRDivRat(a, p) == <<BigMulSmall(p[2], a[1]), BigMulSmall(p[1], a[2])>>
BRScale(p, m) == <<BigMulSmall(p[1], m), p[2]>>
BREq(p, q) == BigMul(p[1], q[2]) = BigMul(q[1], p[2])
BRLeq(p, q) == BigLeq(BigMul(p[1], q[2]), BigMul(q[1], p[2]))
BRLess(p, q) == BigLess(BigMul(p[1], q[2]), BigMul(q[1], p[2]))
BRIsZero(p) == p[1] = BigZero

(***************************************************************************)
(* The catalog.                                                            *)
(***************************************************************************)
Scale(name, hundredths, category) ==
    [name |-> name, tension_val |-> Rat(hundredths, 100), category |-> category]

Catalog ==
    << Scale("E Major", 0, "consonant"),
       Scale("E Major Pent", 3, "consonant"),
       Scale("E Lydian", 10, "consonant"),
       Scale("E Mixolydian", 18, "consonant"),
       Scale("E Minor Pent", 22, "consonant"),
       Scale("E Dorian", 25, "consonant"),
       Scale("E Aeolian", 35, "color"),
       Scale("E Harmonic Min", 50, "color"),
       Scale("E Melodic Min", 55, "color"),
       Scale("E Octatonic", 85, "high"),
       Scale("E Phrygian Dom", 90, "high") >>

Names(sc) == {sc[i].name : i \in DOMAIN sc}

(***************************************************************************)
(* get_tension_band                                                        *)
(***************************************************************************)
InCategories(s, cats) == s.category \in cats

\* get_tension_band with < for <= : a boundary tension goes to the upper band
get_tension_band_strict(sc, tension) ==
    IF RLess(tension, Rat(25, 100))
    THEN SelectSeq(sc, LAMBDA s : InCategories(s, {"consonant"}))
    ELSE IF RLess(tension, Rat(55, 100))
    THEN SelectSeq(sc, LAMBDA s : InCategories(s, {"consonant", "color"}))
    ELSE IF RLess(tension, Rat(80, 100))
    THEN SelectSeq(sc, LAMBDA s : InCategories(s, {"color", "high"}))
    ELSE SelectSeq(sc, LAMBDA s : InCategories(s, {"high"}))

\* get_tension_band answering only tensions of [0, 1]
get_tension_band_checked(sc, tension) ==
    IF RLess(tension, Rat(0, 1)) \/ RLess(Rat(1, 1), tension)
    THEN <<>>
    ELSE IF RLeq(tension, Rat(25, 100))
    THEN SelectSeq(sc, LAMBDA s : InCategories(s, {"consonant"}))
    ELSE IF RLeq(tension, Rat(55, 100))
    THEN SelectSeq(sc, LAMBDA s : InCategories(s, {"consonant", "color"}))
    ELSE IF RLeq(tension, Rat(80, 100))
    THEN SelectSeq(sc, LAMBDA s : InCategories(s, {"color", "high"}))
    ELSE SelectSeq(sc, LAMBDA s : InCategories(s, {"high"}))

\* get_tension_band whose last branch compares with a category no entry has
get_tension_band_gap(sc, tension) ==
    IF RLeq(tension, Rat(25, 100))
    THEN SelectSeq(sc, LAMBDA s : InCategories(s, {"consonant"}))
    ELSE IF RLeq(tension, Rat(55, 100))
    THEN SelectSeq(sc, LAMBDA s : InCategories(s, {"consonant", "color"}))
    ELSE IF RLeq(tension, Rat(80, 100))
    THEN SelectSeq(sc, LAMBDA s : InCategories(s, {"color", "high"}))
    ELSE SelectSeq(sc, LAMBDA s : InCategories(s, {"High"}))

get_tension_band(sc, tension) ==
    IF RLeq(tension, Rat(25, 100))
    THEN SelectSeq(sc, LAMBDA s : InCategories(s, {"consonant"}))
    ELSE IF RLeq(tension, Rat(55, 100))
    THEN SelectSeq(sc, LAMBDA s : InCategories(s, {"consonant", "color"}))
    ELSE IF RLeq(tension, Rat(80, 100))
    THEN SelectSeq(sc, LAMBDA s : InCategories(s, {"color", "high"}))
    ELSE SelectSeq(sc, LAMBDA s : InCategories(s, {"high"}))

(***************************************************************************)
(* calculate_probabilities                                                 *)
(***************************************************************************)
distance(tension_val, tension) == RAbs(RSub(tension_val, tension))

\* weight with the offset 1 for 0.1
weight_offset_one(tension_val, tension) ==
    RInv(RAdd(distance(tension_val, tension), Rat(1, 1)))

weight(tension_val, tension) == RInv(RAdd(distance(tension_val, tension), Rat(1, 10)))

\* the entry the loop writes last under a name
LastNamed(cands, name) ==
    cands[CHOOSE i \in DOMAIN cands :
            /\ cands[i].name = name
            /\ \A j \in DOMAIN cands : cands[j].name = name => j <= i]

Weights(cands, tension) ==
    [name \in Names(cands) |-> weight(LastNamed(cands, name).tension_val, tension)]

\* the dictionary's keys in insertion order
RECURSIVE KeyOrder(_)
KeyOrder(cands) ==
    IF cands = <<>> THEN <<>>
    ELSE LET rest == KeyOrder(SubSeq(cands, 1, Len(cands) - 1))
             name == cands[Len(cands)].name
         IN  IF \E i \in DOMAIN rest : rest[i] = name THEN rest ELSE Append(rest, name)

RECURSIVE SumValues(_, _, _)
SumValues(ws, keys, k) ==
    IF k = 0 THEN BRZero ELSE BRAddRat(SumValues(ws, keys, k - 1), ws[keys[k]])

Total(ws, cands) == SumValues(ws, KeyOrder(cands), Len(KeyOrder(cands)))

\* Probs without the division by the total
Probs_unnormalised(ws, tot) == [name \in DOMAIN ws |-> BROfRat(ws[name])]

Probs(ws, tot) == [name \in DOMAIN ws |-> BRDivRat(ws[name], tot)]

\* Project with the default 1 for 0
Project_default_one(sc, ps) ==
    [name \in Names(sc) |-> IF name \in DOMAIN ps THEN ps[name] ELSE <<BigOne, BigOne>>]

\* Project returning the eligible names only
Project_eligible_only(sc, ps) == ps

Project(sc, ps) ==
    [name \in Names(sc) |-> IF name \in DOMAIN ps THEN ps[name] ELSE BRZero]

\* the function's locals at its return statement
calculate_probabilities(sc, arg) ==
    LET cands == get_tension_band(sc, arg)
        ws == Weights(cands, arg)
        tot == Total(ws, cands)
    IN  [candidates |-> cands, weights |-> ws, total |-> tot,
         result |-> Project(sc, Probs(ws, tot))]

\* the call leaving its band in the module-level list
ScalesAfterCall_filtered(sc, cands) == cands

\* the module-level list after a call: the function never assigns to it
ScalesAfterCall(sc, cands) == sc

\* one call of calculate_probabilities(arg)
Call(arg) ==
    LET r == calculate_probabilities(scales, arg)
    IN  /\ tension_arg' = arg
        /\ candidates' = r.candidates
        /\ weights' = r.weights
        /\ total' = r.total
        /\ probs' = r.result
        /\ scales' = ScalesAfterCall(scales, r.candidates)

(***************************************************************************)
(* The function called on its own, on any tension of the grid.               *)
(***************************************************************************)
TensionGrid == {Rat(k, GridDen) : k \in (0 - MaxBelow)..(GridDen + MaxAbove)}

Unset == <<>>

InitQuery ==
    /\ scales = Catalog
    /\ pc = "call"
    /\ n_samples = 0
    /\ tensions = <<>>
    /\ idx = 0
    /\ tension_arg \in TensionGrid
    /\ candidates = <<>>
    /\ weights = Unset
    /\ total = Unset
    /\ probs = Unset
    /\ prob_data = Unset
    /\ prev_data = Unset

Query ==
    /\ pc = "call"
    /\ Call(tension_arg)
    /\ pc' = "returned"
    /\ UNCHANGED <<n_samples, tensions, idx, prob_data, prev_data>>

NextQuery == Query

SpecQuery == InitQuery /\ [][NextQuery]_vars

(***************************************************************************)
(* Properties of a call.                                                   *)
(***************************************************************************)
Returned == probs # Unset

\* the band table: the categories eligible at tension x
BandCategories(x) ==
    CASE RLeq(x, Rat(25, 100)) -> {"consonant"}
      [] RLess(Rat(25, 100), x) /\ RLeq(x, Rat(55, 100)) -> {"consonant", "color"}
      [] RLess(Rat(55, 100), x) /\ RLeq(x, Rat(80, 100)) -> {"color", "high"}
      [] RLess(Rat(80, 100), x) -> {"high"}

Entries(sc) == {sc[i] : i \in DOMAIN sc}
EntriesOf(cats) == {e \in Entries(Catalog) : e.category \in cats}
ConsonantNames ==
    {"E Major", "E Major Pent", "E Lydian", "E Mixolydian", "E Minor Pent", "E Dorian"}

\* C1: the band returned for a tension is exactly the catalog entries, each
\* once, whose category the band table gives: {consonant} up to 0.25,
\* {consonant, color} above 0.25 up to 0.55, {color, high} above 0.55 up to
\* 0.80, {high} above 0.80; a tension on a boundary belongs to the lower band,
\* so 0.25 gives the six consonant scales only.
C1_BandMembership ==
    Returned =>
        /\ Entries(candidates) = EntriesOf(BandCategories(tension_arg))
        /\ Len(candidates) = Cardinality(EntriesOf(BandCategories(tension_arg)))
        /\ REq(tension_arg, Rat(25, 100)) => Names(candidates) = ConsonantNames
        /\ REq(tension_arg, Rat(55, 100)) =>
               {e.category : e \in Entries(candidates)} = {"consonant", "color"}
        /\ REq(tension_arg, Rat(80, 100)) =>
               {e.category : e \in Entries(candidates)} = {"color", "high"}

C1_Witness ==
    /\ Returned
    /\ tension_arg = Rat(25, 100)
    /\ Names(candidates) = ConsonantNames

RECURSIVE SumOver(_, _, _)
\* the sum of the mapping ps over the first k names of keys
SumOver(ps, keys, k) ==
    IF k = 0 THEN BRZero ELSE BRAdd(SumOver(ps, keys, k - 1), ps[keys[k]])

SumOfProbs == SumOver(probs, KeyOrder(Catalog), Len(Catalog))

InUnitRange(x) == RLeq(Rat(0, 1), x) /\ RLeq(x, Rat(1, 1))

\* C2: for a tension in [0, 1] the values of the returned mapping sum to
\* exactly 1 and each value lies in [0, 1].
C2_Normalised ==
    (Returned /\ InUnitRange(tension_arg)) =>
        /\ SumOfProbs[1] = SumOfProbs[2]
        /\ \A name \in DOMAIN probs :
               /\ BigLeq(BigZero, probs[name][1])
               /\ BigLess(BigZero, probs[name][2])
               /\ BigLeq(probs[name][1], probs[name][2])

C2_Witness ==
    /\ Returned
    /\ tension_arg = Rat(40, 100)
    /\ Cardinality({name \in DOMAIN probs : ~BRIsZero(probs[name])}) = 9
    /\ SumOfProbs[1] = SumOfProbs[2]

\* C3: for every tension, below 0 and above 1 included, the call returns and
\* its band is not empty; a tension below 0 gets the first band (consonant),
\* a tension above 1 the last band (high).
C3_BandNeverEmpty ==
    (pc = "returned") =>
        /\ Returned
        /\ candidates # <<>>
        /\ RLess(tension_arg, Rat(0, 1)) =>
               Entries(candidates) = EntriesOf({"consonant"})
        /\ RLess(Rat(1, 1), tension_arg) =>
               Entries(candidates) = EntriesOf({"high"})

C3_Witness ==
    /\ pc = "returned"
    /\ RLess(Rat(1, 1), tension_arg)
    /\ Names(candidates) = {"E Octatonic", "E Phrygian Dom"}

\* C4: every catalog entry whose category is outside the band of the tension
\* has probability exactly 0 in the returned mapping.
C4_ZeroOutsideBand ==
    Returned =>
        \A e \in Entries(Catalog) :
            e.category \notin BandCategories(tension_arg) =>
                e.name \in DOMAIN probs /\ probs[e.name] = BRZero

C4_Witness ==
    /\ Returned
    /\ RLess(Rat(80, 100), tension_arg)
    /\ probs["E Major"] = BRZero
    /\ ~BRIsZero(probs["E Octatonic"])

\* C5: whatever the band, the keys of the returned mapping are exactly the
\* eleven catalog names.
C5_KeysAreCatalogNames ==
    Returned =>
        /\ DOMAIN probs = Names(Catalog)
        /\ Cardinality(DOMAIN probs) = 11

C5_Witness ==
    /\ Returned
    /\ Len(candidates) = 2
    /\ Cardinality(DOMAIN probs) = 11

\* C6: when the tension equals a scale's reference tension, that scale is
\* eligible, its weight is 10, and its weight and its probability are
\* strictly greater than those of every other eligible scale.
C6_ExactMatchDominates ==
    Returned =>
        \A e \in Entries(Catalog) :
            REq(e.tension_val, tension_arg) =>
                /\ e \in Entries(candidates)
                /\ weights[e.name] = Rat(10, 1)
                /\ \A other \in DOMAIN weights \ {e.name} :
                       /\ RLess(weights[other], weights[e.name])
                       /\ BRLess(probs[other], probs[e.name])

C6_Witness ==
    /\ Returned
    /\ tension_arg = Rat(0, 1)
    /\ Names(candidates) = ConsonantNames
    /\ weights["E Major"] = Rat(10, 1)
    /\ \A other \in ConsonantNames \ {"E Major"} :
           BRLess(probs[other], probs["E Major"])

NSamples == 200
Percent == 100

SampleCounts == (0 - 1)..MaxSamples \cup {NSamples}

\* np.linspace(0, 1, num, endpoint=False)
linspace_no_endpoint(num) == [k \in 1..num |-> Rat(k - 1, num)]

\* np.linspace(0, 1, num) for num >= 0
linspace(num) ==
    [k \in 1..num |-> IF num = 1 THEN Rat(0, 1) ELSE Rat(k - 1, num - 1)]

EmptySeries(sc) == [name \in Names(sc) |-> <<>>]

AppendPercent(data, ps) ==
    [name \in DOMAIN data |-> Append(data[name], BRScale(ps[name], Percent))]

Init ==
    /\ scales = Catalog
    /\ pc = "start"
    /\ n_samples \in SampleCounts
    /\ tensions = <<>>
    /\ idx = 0
    /\ tension_arg = Unset
    /\ candidates = <<>>
    /\ weights = Unset
    /\ total = Unset
    /\ probs = Unset
    /\ prob_data = Unset
    /\ prev_data = Unset

\* np.linspace raises ValueError for a negative count
LinspaceError ==
    /\ pc = "start"
    /\ n_samples < 0
    /\ pc' = "error"
    /\ UNCHANGED <<scales, n_samples, tensions, idx, tension_arg, candidates, weights,
                   total, probs, prob_data, prev_data>>

Start ==
    /\ pc = "start"
    /\ n_samples >= 0
    /\ tensions' = linspace(n_samples)
    /\ prob_data' = EmptySeries(scales)
    /\ idx' = 0
    /\ pc' = "loop"
    /\ UNCHANGED <<scales, n_samples, tension_arg, candidates, weights, total, probs,
                   prev_data>>

Step ==
    /\ pc = "loop"
    /\ idx < Len(tensions)
    /\ Call(tensions[idx + 1])
    /\ prob_data' = AppendPercent(prob_data, probs')
    /\ idx' = idx + 1
    /\ UNCHANGED <<pc, n_samples, tensions, prev_data>>

Finish ==
    /\ pc = "loop"
    /\ idx = Len(tensions)
    /\ pc' = "done"
    /\ UNCHANGED <<scales, n_samples, tensions, idx, tension_arg, candidates, weights,
                   total, probs, prob_data, prev_data>>

\* the script is run a second time on the same count
Rerun ==
    /\ pc = "done"
    /\ prev_data = Unset
    /\ prev_data' = prob_data
    /\ pc' = "start"
    /\ tensions' = <<>>
    /\ idx' = 0
    /\ tension_arg' = Unset
    /\ candidates' = <<>>
    /\ weights' = Unset
    /\ total' = Unset
    /\ probs' = Unset
    /\ prob_data' = Unset
    /\ UNCHANGED <<scales, n_samples>>

Next == LinspaceError \/ Start \/ Step \/ Finish \/ Rerun

Spec == Init /\ [][Next]_vars

(***************************************************************************)
(* Properties of the sweep.                                                *)
(***************************************************************************)
\* C7: a finished sweep over n_samples >= 1 holds exactly n_samples tensions
\* in strictly increasing order, the first 0, and for n_samples > 1 the last
\* 1 and every step 1/(n_samples - 1); every series holds exactly n_samples
\* values, the k-th being the percentage computed for the k-th tension.
C7_SweepGrid ==
    (pc = "done" /\ n_samples >= 1) =>
        /\ Len(tensions) = n_samples
        /\ tensions[1] = Rat(0, 1)
        /\ n_samples > 1 => tensions[n_samples] = Rat(1, 1)
        /\ \A k \in 1..(n_samples - 1) :
               /\ RLess(tensions[k], tensions[k + 1])
               /\ RSub(tensions[k + 1], tensions[k]) = Rat(1, n_samples - 1)
        /\ DOMAIN prob_data = Names(Catalog)
        /\ \A name \in DOMAIN prob_data :
               /\ Len(prob_data[name]) = n_samples
               /\ \A k \in 1..n_samples :
                      prob_data[name][k] =
                          BRScale(calculate_probabilities(Catalog, tensions[k]).result[name],
                                  Percent)

C7_Witness ==
    /\ pc = "done"
    /\ n_samples = NSamples
    /\ Len(tensions) = NSamples
    /\ tensions[NSamples] = Rat(1, 1)
    /\ Len(prob_data["E Major"]) = NSamples

C10_Independent ==
    /\ scales = Catalog
    /\ Returned => probs = calculate_probabilities(Catalog, tension_arg).result
    /\ (pc = "done" /\ prev_data # Unset) => prob_data = prev_data

C10_Witness ==
    /\ pc = "done"
    /\ prev_data # Unset
    /\ n_samples = NSamples
    /\ Len(prev_data["E Major"]) = NSamples
    /\ prob_data = prev_data

====
